---- MODULE Spec2Model ----
(***************************************************************************)
(* Motion-control core of the pick-and-place machine (src/src/pnp.c):     *)
(* five stepper axes, one worker thread per axis, and the coordinator     *)
(* entry points pnp_move_nonblock, pnp_move, pnp_move_home_motor,         *)
(* pnp_move_home_z, pnp_move_home and pnp_command_move.                   *)
(*                                                                         *)
(* Semaphores are counters; mdx_sem_wait is an action guarded by a        *)
(* positive count.  A hardware pulse is requested by the worker, and its  *)
(* completion interrupt (pnp_pwm_*_intr) posts the axis's step_sem.       *)
(***************************************************************************)
EXTENDS Integers, Sequences, FiniteSets, TLC

(* ------------------------------------------------------------------ *)
(* Program constants                                                   *)
(* ------------------------------------------------------------------ *)
PNP_MAX_X_NM == 364000000
PNP_MAX_Y_NM == 368000000
CAM_RADIUS == 15000000
PNP_XY_FULL_REVO_NM == 40000000
PNP_XY_FULL_REVO_STEPS == 6400
PNP_Z_FULL_REVO_DEG == 360000000
PNP_Z_FULL_REVO_STEPS == 12800
PNP_NR_FULL_REVO_DEG == 360000000
PNP_NR_FULL_REVO_STEPS == 12800
Z_LIMIT_DEG == 111000000
H_LIMIT_DEG == 180000000

(* ------------------------------------------------------------------ *)
(* Bounds of the model                                                 *)
(* ------------------------------------------------------------------ *)
\* Requested positions lie within -1 .. MaxMoveSteps steps of the origin
\* (plus one target just outside each limit).
MaxMoveSteps == 2

\* Number of G-code move commands executed in one run.
MaxCmds == 1

\* Number of homing calls made in one run.
MaxHomes == 1

\* Number of bare pnp_move_nonblock calls made in one run.
MaxNonblockCalls == 3

Abs(a) == IF a < 0 THEN -a ELSE a

\* C integer division: the quotient is truncated toward zero.
TruncDiv(a, b) ==
  IF (a >= 0) = (b > 0) THEN Abs(a) \div Abs(b) ELSE -(Abs(a) \div Abs(b))

PNP_XY_STEP_NM == TruncDiv(PNP_XY_FULL_REVO_NM, PNP_XY_FULL_REVO_STEPS)
PNP_Z_STEP_DEG == TruncDiv(PNP_Z_FULL_REVO_DEG, PNP_Z_FULL_REVO_STEPS)
PNP_NR_STEP_DEG == TruncDiv(PNP_NR_FULL_REVO_DEG, PNP_NR_FULL_REVO_STEPS)

PNP_STEPS_X_MIN == 0
PNP_STEPS_X_MAX == TruncDiv(PNP_MAX_X_NM, PNP_XY_STEP_NM)
PNP_STEPS_Y_MIN == 0
PNP_STEPS_Y_MAX == TruncDiv(PNP_MAX_Y_NM, PNP_XY_STEP_NM)
PNP_STEPS_Z_MIN == TruncDiv(-Z_LIMIT_DEG, PNP_Z_STEP_DEG)
PNP_STEPS_Z_MAX == TruncDiv(Z_LIMIT_DEG, PNP_Z_STEP_DEG)
PNP_STEPS_H_MIN == TruncDiv(-H_LIMIT_DEG, PNP_NR_STEP_DEG)
PNP_STEPS_H_MAX == TruncDiv(H_LIMIT_DEG, PNP_NR_STEP_DEG)

(* ------------------------------------------------------------------ *)
(* The five axes and their configuration (pnp_initialize)              *)
(* ------------------------------------------------------------------ *)
Motors == {"x", "y", "z", "h1", "h2"}

step_nm(m) ==
  CASE m = "x" -> PNP_XY_STEP_NM
    [] m = "y" -> PNP_XY_STEP_NM
    [] m = "z" -> PNP_Z_STEP_DEG
    [] OTHER -> PNP_NR_STEP_DEG

steps_min(m) ==
  CASE m = "x" -> PNP_STEPS_X_MIN
    [] m = "y" -> PNP_STEPS_Y_MIN
    [] m = "z" -> PNP_STEPS_Z_MIN
    [] OTHER -> PNP_STEPS_H_MIN

steps_max(m) ==
  CASE m = "x" -> PNP_STEPS_X_MAX
    [] m = "y" -> PNP_STEPS_Y_MAX
    [] m = "z" -> PNP_STEPS_Z_MAX
    [] OTHER -> PNP_STEPS_H_MAX

\* motor->cam_translate_mm_to_deg is set for Z only.
has_cam_translate(m) == m = "z"

\* motor->is_at_home is set for X, Y and Z, NULL for H1 and H2.
has_home_sensor(m) == m \in {"x", "y", "z"}

VARIABLES
  steps,          \* motor->steps: current offset from home, in steps
  task,           \* motor->task: the move task of each axis
  worker_sem,     \* motor->worker_sem: task-ready signal
  step_sem,       \* motor->step_sem: pulse-completion signal
  task_compl_sem, \* motor->task.task_compl_sem: task-completion signal
  cam_radius,     \* motor->cam_radius
  worker,         \* each worker thread: position and locals steps, speed, i
  pwm,            \* pulse source: the pulse in progress on each axis
  dirpin,         \* direction line of each axis, as set by set_direction
  phys,           \* physical position of each axis relative to its home edge
  sensor,         \* condition of each home sensor
  pc,             \* coordinator: position in the running entry point
  co,             \* coordinator: arguments and locals of the running call
  driven,         \* environment: the axes the caller drives in this run
  calls,          \* environment: the commands handed over so far
  pulsed,         \* history: axes pulsed since the current entry point began
  log,            \* history: moves issued and waits passed by command_move
  ramp,           \* one evaluation of calc_speed: arguments and result
  set_direction   \* motor->set_direction: the direction routine of each axis

vars == <<steps, task, worker_sem, step_sem, task_compl_sem, cam_radius,
          worker, pwm, dirpin, phys, sensor, pc, co, driven, calls, pulsed,
          log, ramp, set_direction>>

\* Set at start-up and by the environment; no entry point writes them.
env_vars == <<cam_radius, sensor, driven, calls, ramp, set_direction>>

axis_vars == <<steps, task, worker_sem, step_sem, task_compl_sem, worker,
               pwm, dirpin, phys>>

(* ------------------------------------------------------------------ *)
(* State after pnp_initialize                                          *)
(* ------------------------------------------------------------------ *)
\* bzero(&pnp, ...) clears every task field.
ZeroTask ==
  [steps |-> 0, check_home |-> 0, direction |-> 0, speed |-> 0,
   speed_control |-> 0, home_found |-> 0]

\* The field start is history: motor->steps when the task was taken.
ZeroWorker == [pc |-> "idle", steps |-> 0, speed |-> 0, i |-> 0, start |-> 0]

NoPulse == [busy |-> FALSE, speed |-> 0]

\* A gcode_command with no field set.
NoCmd == [m \in Motors |-> [set |-> FALSE, val |-> 0]]

NoCall ==
  [motor |-> "none", new_pos |-> 0, cam_error |-> 0, conv |-> 0,
   new_steps |-> 0, error |-> 0, i |-> 0, steps |-> 0, dir |-> 0, found |-> 0,
   cmd |-> NoCmd, top |-> "none"]

\* No evaluation of calc_speed under observation.
NoRamp == [i |-> 0, total |-> 0, speed |-> 0, out |-> 0, done |-> TRUE]

\* pnp_initialize installs pnp_xset_direction, pnp_yset_direction, ... :
\* each drives the direction line with the value it is given.
InitDirection == set_direction = [m \in Motors |-> "normal"]

InitAxes ==
  /\ ramp = NoRamp
  /\ InitDirection
  /\ steps = [m \in Motors |-> 0]
  /\ task = [m \in Motors |-> ZeroTask]
  /\ worker_sem = [m \in Motors |-> 0]
  /\ step_sem = [m \in Motors |-> 0]
  /\ task_compl_sem = [m \in Motors |-> 0]
  /\ worker = [m \in Motors |-> ZeroWorker]
  /\ pwm = [m \in Motors |-> NoPulse]
  /\ dirpin = [m \in Motors |-> 0]
  /\ pc = "idle"
  /\ co = NoCall
  /\ calls = 0
  /\ pulsed = [m \in Motors |-> FALSE]
  /\ log = <<>>

InitCam == cam_radius = [m \in Motors |-> IF m = "z" THEN CAM_RADIUS ELSE 0]

(* ------------------------------------------------------------------ *)
(* Home sensors (pnp_is_x_home, pnp_is_yl_home, pnp_is_z_home)         *)
(* ------------------------------------------------------------------ *)
\* Half-width of the band in which the Z home sensor reports true.
ZBand == 60

\* The pin read.  A healthy sensor is a fixed function of the physical
\* position: X and Y report home at and beyond the home edge, Z inside a
\* narrow band.  A faulty sensor is stuck at one level.
is_at_home(m) ==
  CASE sensor[m] = "stuck0" -> FALSE
    [] sensor[m] = "stuck1" -> TRUE
    [] OTHER -> IF m = "z" THEN Abs(phys[m]) <= ZBand ELSE phys[m] <= 0

(* ------------------------------------------------------------------ *)
(* Speed ramp                                                          *)
(* ------------------------------------------------------------------ *)
calc_speed(i, nsteps, speed) ==
  LET t == IF i < nsteps - i THEN i ELSE nsteps - i
  IN IF t < 1000
       THEN (IF TruncDiv(t, 10) < 15 THEN 15 ELSE TruncDiv(t, 10))
       ELSE speed

(* ------------------------------------------------------------------ *)
(* Axis worker (pnp_worker_thread) and pulse interrupt                 *)
(* ------------------------------------------------------------------ *)
count_step_forward(dir, s) == s + 1

\* motor->steps += 1 when task->direction == 1, else motor->steps -= 1.
count_step(dir, s) == IF dir = 1 THEN s + 1 ELSE s - 1

\* motor->set_direction(dir): the level put on the direction line of the
\* (left) motor.  pnp_yset_direction_rev drives it with !dir.
direction_line(m, dir) ==
  IF set_direction[m] = "rev" THEN (IF dir = 0 THEN 1 ELSE 0) ELSE dir

\* mdx_sem_wait(&motor->worker_sem); steps = task->steps; speed =
\* task->speed; motor->set_direction(task->direction); i = 0.
worker_take(m) ==
  /\ pc # "panic"
  /\ worker[m].pc = "idle"
  /\ worker_sem[m] > 0
  /\ worker_sem' = [worker_sem EXCEPT ![m] = @ - 1]
  /\ worker' = [worker EXCEPT ![m] =
                  [pc |-> "loop", steps |-> task[m].steps,
                   speed |-> task[m].speed, i |-> 0, start |-> steps[m]]]
  /\ dirpin' = [dirpin EXCEPT ![m] = direction_line(m, task[m].direction)]
  /\ UNCHANGED <<steps, task, step_sem, task_compl_sem, pwm, phys, pc, co, pulsed, log, env_vars>>

home_check_unconditional(m) == is_at_home(m)

\* task->check_home && motor->is_at_home(): the sensor is read only when
\* the flag is set.
home_check(m) == task[m].check_home # 0 /\ is_at_home(m)

post_compl_twice(c) == c + 2

\* mdx_sem_post(&task->task_compl_sem)
post_compl(c) == c + 1

pulse_confirmed_always(m) == TRUE

\* mdx_sem_wait(&motor->step_sem) returns.
pulse_confirmed(m) == step_sem[m] > 0

\* Head and body of the for loop up to motor->step(): leaves the loop when
\* i reaches steps or when the home check reads true (then posts the task
\* completion), otherwise requests one pulse at the effective speed.
worker_loop(m) ==
  /\ pc # "panic"
  /\ worker[m].pc = "loop"
  /\ IF worker[m].i >= worker[m].steps
       THEN /\ task_compl_sem' = [task_compl_sem EXCEPT ![m] = post_compl(@)]
            /\ worker' = [worker EXCEPT ![m].pc = "idle"]
            /\ UNCHANGED <<task, pwm, pulsed>>
       ELSE IF home_check(m)
         THEN /\ task' = [task EXCEPT ![m].home_found = 1]
              /\ task_compl_sem' = [task_compl_sem EXCEPT ![m] = post_compl(@)]
              /\ worker' = [worker EXCEPT ![m].pc = "idle"]
              /\ UNCHANGED <<pwm, pulsed>>
         ELSE LET sp == IF task[m].speed_control # 0
                          THEN calc_speed(worker[m].i, worker[m].steps,
                                          worker[m].speed)
                          ELSE worker[m].speed
              IN /\ worker' = [worker EXCEPT ![m].speed = sp,
                                             ![m].pc = "wait_step"]
                 /\ pwm' = [pwm EXCEPT ![m] = [busy |-> TRUE, speed |-> sp]]
                 /\ pulsed' = [pulsed EXCEPT ![m] = TRUE]
                 /\ UNCHANGED <<task, task_compl_sem>>
  /\ UNCHANGED <<steps, worker_sem, step_sem, dirpin, phys, pc, co, log, env_vars>>

\* The pulse completes: the axis has moved one step in the direction of its
\* direction line and the interrupt handler posts step_sem.
pnp_pwm_intr(m) ==
  /\ pc # "panic"
  /\ pwm[m].busy
  /\ pwm' = [pwm EXCEPT ![m].busy = FALSE]
  /\ phys' = [phys EXCEPT ![m] = IF dirpin[m] = 1 THEN @ + 1 ELSE @ - 1]
  /\ step_sem' = [step_sem EXCEPT ![m] = @ + 1]
  /\ UNCHANGED <<steps, task, worker_sem, task_compl_sem, worker, dirpin, pc, co, pulsed, log, env_vars>>

\* mdx_sem_wait(&motor->step_sem), then the position update and i++.
worker_count(m) ==
  /\ pc # "panic"
  /\ worker[m].pc = "wait_step"
  /\ pulse_confirmed(m)
  /\ step_sem' = [step_sem EXCEPT ![m] = @ - 1]
  /\ steps' = [steps EXCEPT ![m] = count_step(task[m].direction, @)]
  /\ worker' = [worker EXCEPT ![m].pc = "loop", ![m].i = @ + 1]
  /\ UNCHANGED <<task, worker_sem, task_compl_sem, pwm, dirpin, phys, pc, co, pulsed, log, env_vars>>

(* ------------------------------------------------------------------ *)
(* Coordinator: pnp_move_nonblock and pnp_move                         *)
(* ------------------------------------------------------------------ *)
\* Requested positions, in the physical unit of the axis: every step count
\* from -1 to MaxMoveSteps, one position on each side of zero that is not a
\* whole number of steps, and one position just outside each limit.
Targets(m) ==
  {k * step_nm(m) : k \in -1 .. MaxMoveSteps}
    \cup {step_nm(m) - 1, 1 - step_nm(m)}
    \cup {(steps_max(m) + 1) * step_nm(m), (steps_min(m) - 1) * step_nm(m)}

\* The cam-geometry collaborator (trig_translate_z): reports an error, or
\* success with a rotational value.  Its arithmetic is not part of this
\* file, so every outcome is allowed for every input.
cam_translate_mm_to_deg(z, radius) ==
  {[error |-> 1, result |-> 0]}
    \cup {[error |-> 0, result |-> d] : d \in Targets("z")}

\* Outcome of the transform step of a call: axes without a transform do
\* not call the collaborator.
TransformOutcomes(m, new_pos) ==
  IF has_cam_translate(m) /\ cam_radius[m] # 0
    THEN cam_translate_mm_to_deg(new_pos, cam_radius[m])
    ELSE {[error |-> 0, result |-> new_pos]}

limit_exceeded_max_only(m, ns) == ns > steps_max(m)

\* new_steps > motor->steps_max || new_steps < motor->steps_min
limit_exceeded(m, ns) == ns > steps_max(m) \/ ns < steps_min(m)

\* task->direction: 1 when new_steps > motor->steps, else 0.
move_direction(ns, cur) == IF ns > cur THEN 1 ELSE 0

\* delta = abs(new_steps - motor->steps) resp. abs(motor->steps - new_steps)
move_delta(ns, cur) == IF ns > cur THEN Abs(ns - cur) ELSE Abs(cur - ns)

\* What one call pnp_move_nonblock(motor, new_pos) computes, given the
\* outcome tr of the transform step: the return value, the converted
\* position and step count, and the task as the call leaves it.  The
\* flags check_home and speed_control are written before any check.
move_nonblock_result(m, new_pos, tr) ==
  LET t0 == [task[m] EXCEPT !.check_home = 0, !.speed_control = 1]
      ns == TruncDiv(tr.result, step_nm(m))
  IN IF has_cam_translate(m) /\ cam_radius[m] = 0
       THEN [error |-> -1, conv |-> 0, new_steps |-> 0, task |-> t0]
     ELSE IF has_cam_translate(m) /\ tr.error # 0
       THEN [error |-> -2, conv |-> 0, new_steps |-> 0, task |-> t0]
     ELSE IF limit_exceeded(m, ns)
       THEN [error |-> -3, conv |-> tr.result, new_steps |-> ns, task |-> t0]
     ELSE [error |-> 0, conv |-> tr.result, new_steps |-> ns,
           task |-> [t0 EXCEPT !.direction = move_direction(ns, steps[m]),
                               !.steps = move_delta(ns, steps[m]),
                               !.speed = 100]]

nonblock_posts_always(error) == TRUE

\* mdx_sem_post(&motor->worker_sem) is reached only on the success path.
nonblock_posts(error) == error = 0

\* The effect of pnp_move_nonblock on the axis.
pnp_move_nonblock(m, r) ==
  /\ task' = [task EXCEPT ![m] = r.task]
  /\ worker_sem' = [worker_sem EXCEPT ![m] =
                      IF nonblock_posts(r.error) THEN @ + 1 ELSE @]

move_blocks_never(error) == FALSE

\* pnp_move returns the error of pnp_move_nonblock at once, and otherwise
\* goes on to wait for the completion signal.
move_blocks(error) == error = 0

\* pnp_move(motor, new_pos), first half: the call of pnp_move_nonblock and
\* the error check.
pnp_move_enter(m, new_pos) ==
  /\ pc = "idle"
  /\ \E tr \in TransformOutcomes(m, new_pos) :
       LET r == move_nonblock_result(m, new_pos, tr)
       IN /\ pnp_move_nonblock(m, r)
          /\ co' = [NoCall EXCEPT !.motor = m, !.new_pos = new_pos,
                                  !.cam_error = tr.error,
                                  !.conv = r.conv, !.new_steps = r.new_steps,
                                  !.error = r.error]
          /\ pc' = IF move_blocks(r.error) THEN "move_wait" ELSE "move_ret"
  /\ pulsed' = [x \in Motors |-> FALSE]
  /\ UNCHANGED <<steps, step_sem, task_compl_sem, worker, pwm, dirpin, phys, log,
                 cam_radius, sensor, driven, ramp,
                 set_direction>>

\* A call by a caller that keeps no count of its calls.
pnp_move_call(m, new_pos) ==
  /\ pnp_move_enter(m, new_pos)
  /\ UNCHANGED calls

\* pnp_move, second half: mdx_sem_wait(&motor->task.task_compl_sem).
pnp_move_wait ==
  /\ pc = "move_wait"
  /\ task_compl_sem[co.motor] > 0
  /\ task_compl_sem' = [task_compl_sem EXCEPT ![co.motor] = @ - 1]
  /\ pc' = "move_ret"
  /\ UNCHANGED <<steps, task, worker_sem, step_sem, worker, pwm, dirpin, phys, co, pulsed, log, env_vars>>

\* pnp_move returns to its caller.
pnp_move_return ==
  /\ pc = "move_ret"
  /\ pc' = "idle"
  /\ co' = NoCall
  /\ UNCHANGED <<steps, task, worker_sem, step_sem, task_compl_sem, worker, pwm, dirpin, phys, pulsed, log, env_vars>>

\* Hardware at rest somewhere outside the home zones, all sensors healthy.
InitHwClear ==
  /\ phys = [m \in Motors |-> 1000]
  /\ sensor = [m \in Motors |-> "ok"]

\* One run of the positioning caller drives a single axis, or X and Z
\* alternately.
DrivenSets == {{m} : m \in Motors} \cup {{"x", "z"}}

InitMove ==
  /\ InitAxes
  /\ InitCam
  /\ InitHwClear
  /\ driven \in DrivenSets

NextMove ==
  \/ \E m \in driven : \E p \in Targets(m) : pnp_move_call(m, p)
  \/ pnp_move_wait
  \/ pnp_move_return
  \/ \E m \in Motors : worker_take(m)
  \/ \E m \in Motors : worker_loop(m)
  \/ \E m \in Motors : pnp_pwm_intr(m)
  \/ \E m \in Motors : worker_count(m)

\* A caller that moves one axis at a time with pnp_move.
SpecMove == InitMove /\ [][NextMove]_vars

\* A Z axis handed to pnp_move with either value of its cam radius.
InitMoveCam ==
  /\ InitAxes
  /\ InitHwClear
  /\ cam_radius \in {[m \in Motors |-> IF m = "z" THEN r ELSE 0] :
                       r \in {0, CAM_RADIUS}}
  /\ driven = {"z"}

SpecMoveCam == InitMoveCam /\ [][NextMove]_vars

(* ------------------------------------------------------------------ *)
(* Coordinator: pnp_command_move                                       *)
(* ------------------------------------------------------------------ *)
\* uint32_t x = cmd->x, later passed as the int new_pos: the value goes
\* through a 32-bit unsigned and back.  The unsigned value is kept as two
\* 16-bit halves.
uint32_of(v) == [hi |-> (v \div 65536) % 65536, lo |-> v % 65536]

int_of(u) == (IF u.hi >= 32768 THEN u.hi - 65536 ELSE u.hi) * 65536 + u.lo

\* The position command_move passes for a field: X, Y and Z as given, H1
\* and H2 multiplied by -1.
cmd_new_pos(m, val) ==
  IF m \in {"h1", "h2"} THEN int_of(uint32_of(-1 * val))
                         ELSE int_of(uint32_of(val))

\* The order of the four if (cmd->..._set) pnp_move_nonblock(...) blocks.
IssueOrder == <<"x", "y", "h1", "h2">>

WaitOrder_xy_first == <<"x", "y", "h1", "h2">>

\* The order of the four if (cmd->..._set) mdx_sem_wait(...) statements.
WaitOrder == <<"h1", "h2", "x", "y">>

wait_needed_not_y(cmd, m) == cmd[m].set /\ m # "y"

\* if (cmd->..._set) in front of each mdx_sem_wait.
wait_needed(cmd, m) == cmd[m].set

\* if (cmd->..._set) in front of each pnp_move_nonblock.
issue_needed(cmd, m) == cmd[m].set

\* Field values a command may carry for an axis: one step, and for X also
\* a position below steps_min.
CmdValues(m) ==
  {step_nm(m)} \cup (IF m = "x" THEN {-step_nm(m)} ELSE {})

CmdFields(m) ==
  {[set |-> FALSE, val |-> 0]}
    \cup (IF m \in driven THEN {[set |-> TRUE, val |-> v] : v \in CmdValues(m)}
                          ELSE {})

\* The commands the interpreter may hand over: every combination of fields.
Commands ==
  {[x |-> fx, y |-> fy, z |-> fz, h1 |-> fh1, h2 |-> fh2] :
     fx \in CmdFields("x"), fy \in CmdFields("y"), fz \in CmdFields("z"),
     fh1 \in CmdFields("h1"), fh2 \in CmdFields("h2")}

\* pnp_command_move(cmd) is entered.
command_move_enter(cmd) ==
  /\ pc = "idle"
  /\ pc' = "cmd_issue"
  /\ co' = [NoCall EXCEPT !.cmd = cmd, !.i = 1]
  /\ pulsed' = [m \in Motors |-> FALSE]
  /\ log' = <<>>
  /\ UNCHANGED <<axis_vars, cam_radius, sensor, driven, ramp,
                 set_direction>>

\* One command of the run.
command_move_call(cmd) ==
  /\ calls < MaxCmds
  /\ calls' = calls + 1
  /\ command_move_enter(cmd)

\* One of the four blocks that issue a non-blocking move (return value
\* ignored), taken in IssueOrder.
command_move_issue ==
  /\ pc = "cmd_issue"
  /\ LET m == IssueOrder[co.i]
     IN IF issue_needed(co.cmd, m)
          THEN \E tr \in TransformOutcomes(m, cmd_new_pos(m, co.cmd[m].val)) :
                 /\ pnp_move_nonblock(m,
                      move_nonblock_result(m, cmd_new_pos(m, co.cmd[m].val), tr))
                 /\ log' = Append(log, <<"issue", m>>)
          ELSE UNCHANGED <<task, worker_sem, log>>
  /\ IF co.i < Len(IssueOrder)
       THEN pc' = pc /\ co' = [co EXCEPT !.i = @ + 1]
       ELSE pc' = "cmd_wait" /\ co' = [co EXCEPT !.i = 1]
  /\ UNCHANGED <<steps, step_sem, task_compl_sem, worker, pwm, dirpin, phys,
                 pulsed, env_vars>>

\* One of the four conditional waits, taken in WaitOrder.
command_move_wait ==
  /\ pc = "cmd_wait"
  /\ LET m == WaitOrder[co.i]
     IN IF wait_needed(co.cmd, m)
          THEN /\ task_compl_sem[m] > 0
               /\ task_compl_sem' = [task_compl_sem EXCEPT ![m] = @ - 1]
               /\ log' = Append(log, <<"wait", m>>)
          ELSE UNCHANGED <<task_compl_sem, log>>
  /\ IF co.i < Len(WaitOrder)
       THEN pc' = pc /\ co' = [co EXCEPT !.i = @ + 1]
       ELSE pc' = "cmd_z" /\ co' = [co EXCEPT !.i = 0]
  /\ UNCHANGED <<steps, task, worker_sem, step_sem, worker, pwm, dirpin, phys,
                 pulsed, env_vars>>

\* if (cmd->z_set) pnp_move(&pnp.motor_z, z): the call of pnp_move_nonblock
\* inside pnp_move; the error of pnp_move is ignored.
command_move_z ==
  /\ pc = "cmd_z"
  /\ IF co.cmd["z"].set
       THEN \E tr \in TransformOutcomes("z", cmd_new_pos("z", co.cmd["z"].val)) :
              LET r == move_nonblock_result("z",
                         cmd_new_pos("z", co.cmd["z"].val), tr)
              IN /\ pnp_move_nonblock("z", r)
                 /\ co' = [co EXCEPT !.motor = "z",
                                     !.new_pos = cmd_new_pos("z", co.cmd["z"].val),
                                     !.cam_error = tr.error, !.conv = r.conv,
                                     !.new_steps = r.new_steps,
                                     !.error = r.error]
                 /\ pc' = IF move_blocks(r.error) THEN "cmd_z_wait"
                                                  ELSE "cmd_ret"
                 /\ log' = Append(log, <<"move", "z">>)
       ELSE /\ pc' = "cmd_ret"
            /\ UNCHANGED <<task, worker_sem, co, log>>
  /\ UNCHANGED <<steps, step_sem, task_compl_sem, worker, pwm, dirpin, phys,
                 pulsed, env_vars>>

\* The wait inside pnp_move for Z.
command_move_z_wait ==
  /\ pc = "cmd_z_wait"
  /\ task_compl_sem["z"] > 0
  /\ task_compl_sem' = [task_compl_sem EXCEPT !["z"] = @ - 1]
  /\ pc' = "cmd_ret"
  /\ UNCHANGED <<steps, task, worker_sem, step_sem, worker, pwm, dirpin, phys,
                 co, pulsed, log, env_vars>>

\* pnp_command_move returns.
command_move_return ==
  /\ pc = "cmd_ret"
  /\ pc' = "idle"
  /\ co' = NoCall
  /\ UNCHANGED <<axis_vars, pulsed, log, env_vars>>

\* One run of the command interpreter drives one of these sets of axes.
CmdDrivenSets ==
  {{"z"}, {"x", "y", "z"}, {"h1", "h2", "z"}, {"x", "y", "h1", "h2", "z"}}

InitCmd ==
  /\ InitAxes
  /\ InitCam
  /\ InitHwClear
  /\ driven \in CmdDrivenSets

NextCmd ==
  \/ pc = "idle" /\ \E c \in Commands : command_move_call(c)
  \/ command_move_issue
  \/ command_move_wait
  \/ command_move_z
  \/ command_move_z_wait
  \/ command_move_return
  \/ \E m \in Motors : worker_take(m)
  \/ \E m \in Motors : worker_loop(m)
  \/ \E m \in Motors : pnp_pwm_intr(m)
  \/ \E m \in Motors : worker_count(m)

\* A caller that executes G-code move commands one after another.
SpecCmd == InitCmd /\ [][NextCmd]_vars

(* ------------------------------------------------------------------ *)
(* Coordinator: pnp_move_home_z                                        *)
(* ------------------------------------------------------------------ *)
Z_LEAVE_STEPS == 200
Z_SEARCH_FIRST_STEPS == 100
Z_SEARCH_MORE_STEPS == 200
Z_SEARCH_ITERATIONS == 20
Z_SEAT_STEPS == 50

\* Hand the task t to the worker of m: the field writes, then
\* mdx_sem_post(&motor->worker_sem).
post_task(m, t) ==
  /\ task' = [task EXCEPT ![m] = t]
  /\ worker_sem' = [worker_sem EXCEPT ![m] = @ + 1]

\* mdx_sem_wait(&task->task_compl_sem)
wait_compl(m) ==
  /\ task_compl_sem[m] > 0
  /\ task_compl_sem' = [task_compl_sem EXCEPT ![m] = @ - 1]

\* "First leave home": 200 steps forward, no home check.
z_leave_task ==
  [steps |-> Z_LEAVE_STEPS, check_home |-> 0, speed |-> 15,
   speed_control |-> 0, home_found |-> 0, direction |-> 1]

\* One search iteration: n steps in direction dir with the home check.
z_search_task(dir, n) ==
  [direction |-> dir, steps |-> n, check_home |-> 1, speed |-> 15,
   speed_control |-> 0, home_found |-> 0]

seat_direction_flipped(dir) == 1 - dir

\* task->direction = dir after the loop: dir is not changed on the break.
seat_direction(dir) == dir

\* "Now make 50 steps into home"
z_seat_task(dir) ==
  [steps |-> Z_SEAT_STEPS, check_home |-> 0, speed |-> 15,
   speed_control |-> 0, home_found |-> 0, direction |-> seat_direction(dir)]

search_steps_next_100(n) == n + 100

\* steps += 200
search_steps_next(n) == n + Z_SEARCH_MORE_STEPS

\* dir = !dir
search_dir_next(dir) == IF dir = 0 THEN 1 ELSE 0

\* The locals at the head of the search loop, and its first iteration
\* handed to the worker (the loop runs at least once).
z_search_begin(top) ==
  /\ co' = [NoCall EXCEPT !.motor = "z", !.top = top,
                          !.steps = Z_SEARCH_FIRST_STEPS, !.dir = 1,
                          !.found = 0, !.i = 0]
  /\ post_task("z", z_search_task(1, Z_SEARCH_FIRST_STEPS))
  /\ pc' = "hz_search_wait"

\* pnp_move_home_z is entered: the leave-home move when the sensor reads
\* true, otherwise the first search iteration.
home_z_enter(top) ==
  /\ pc = "idle"
  /\ pulsed' = [m \in Motors |-> FALSE]
  /\ log' = <<>>
  /\ IF is_at_home("z")
       THEN /\ post_task("z", z_leave_task)
            /\ co' = [NoCall EXCEPT !.motor = "z", !.top = top]
            /\ pc' = "hz_leave_wait"
       ELSE z_search_begin(top)
  /\ UNCHANGED <<steps, step_sem, task_compl_sem, worker, pwm, dirpin, phys,
                 cam_radius, sensor, driven, ramp,
                 set_direction>>

\* One homing call of the run.
home_z_call(top) ==
  /\ calls < MaxHomes
  /\ calls' = calls + 1
  /\ home_z_enter(top)

\* The wait after the leave-home move, then the first search iteration.
home_z_leave_wait ==
  /\ pc = "hz_leave_wait"
  /\ wait_compl("z")
  /\ z_search_begin(co.top)
  /\ UNCHANGED <<steps, step_sem, worker, pwm, dirpin, phys, pulsed, log,
                 env_vars>>

\* The wait at the end of a search iteration and what follows it up to the
\* next wait or return: on home_found the loop is left and the seating
\* move handed over; otherwise steps and dir are advanced and either the
\* next iteration is handed over or, after the last one, -1 is returned.
home_z_search_wait ==
  /\ pc = "hz_search_wait"
  /\ wait_compl("z")
  /\ IF task["z"].home_found # 0
       THEN /\ co' = [co EXCEPT !.found = 1]
            /\ post_task("z", z_seat_task(co.dir))
            /\ pc' = "hz_seat_wait"
       ELSE LET n == search_steps_next(co.steps)
                d == search_dir_next(co.dir)
            IN IF co.i + 1 < Z_SEARCH_ITERATIONS
                 THEN /\ co' = [co EXCEPT !.steps = n, !.dir = d, !.i = @ + 1]
                      /\ post_task("z", z_search_task(d, n))
                      /\ pc' = "hz_search_wait"
                 ELSE /\ co' = [co EXCEPT !.steps = n, !.dir = d, !.i = @ + 1,
                                          !.error = -1]
                      /\ pc' = "hz_ret"
                      /\ UNCHANGED <<task, worker_sem>>
  /\ UNCHANGED <<steps, step_sem, worker, pwm, dirpin, phys, pulsed, log,
                 env_vars>>

\* The wait after the seating move, motor->steps = 0 and return (0).
home_z_seat_wait ==
  /\ pc = "hz_seat_wait"
  /\ wait_compl("z")
  /\ steps' = [steps EXCEPT !["z"] = 0]
  /\ co' = [co EXCEPT !.error = 0]
  /\ log' = Append(log, <<"homed", "z">>)
  /\ pc' = "hz_ret"
  /\ UNCHANGED <<task, worker_sem, step_sem, worker, pwm, dirpin, phys,
                 pulsed, env_vars>>

\* pnp_move_home_z returns to a caller other than pnp_move_home.
home_z_return ==
  /\ pc = "hz_ret"
  /\ co.top = "none"
  /\ pc' = "idle"
  /\ co' = NoCall
  /\ UNCHANGED <<axis_vars, pulsed, log, env_vars>>

\* Where the Z axis rests when homing begins, relative to the middle of its
\* home band, and the condition of its sensor.
ZHardware ==
  {[phys |-> 0, sensor |-> "ok"], [phys |-> -100, sensor |-> "ok"],
   [phys |-> -160, sensor |-> "ok"], [phys |-> 300, sensor |-> "ok"],
   [phys |-> 1500, sensor |-> "ok"], [phys |-> 0, sensor |-> "stuck1"],
   [phys |-> 0, sensor |-> "stuck0"]}

InitHomeZ ==
  /\ InitAxes
  /\ InitCam
  /\ driven = {"z"}
  /\ \E hw \in ZHardware :
       /\ phys = [m \in Motors |-> IF m = "z" THEN hw.phys ELSE 1000]
       /\ sensor = [m \in Motors |-> IF m = "z" THEN hw.sensor ELSE "ok"]

NextHomeZ ==
  \/ home_z_call("none")
  \/ home_z_leave_wait
  \/ home_z_search_wait
  \/ home_z_seat_wait
  \/ home_z_return
  \/ \E m \in Motors : worker_take(m)
  \/ \E m \in Motors : worker_loop(m)
  \/ \E m \in Motors : pnp_pwm_intr(m)
  \/ \E m \in Motors : worker_count(m)

\* A caller that homes the Z axis (as pnp_test_z does).
SpecHomeZ == InitHomeZ /\ [][NextHomeZ]_vars

(* ------------------------------------------------------------------ *)
(* Coordinator: pnp_move_home_motor and pnp_move_home                  *)
(* ------------------------------------------------------------------ *)
BACK_OFF_NM == 10000000
SETTLE_NM == 1000000

\* "First reach home quickly": the full Y travel, with the home check.
\* pnp_move_home_motor never writes home_found.
fast_task(m) ==
  [task[m] EXCEPT !.steps = TruncDiv(PNP_MAX_Y_NM, step_nm(m)),
                  !.check_home = 1, !.speed = 20, !.speed_control = 0,
                  !.direction = 0]

back_off_task_short(m) ==
  [task[m] EXCEPT !.direction = 1, !.steps = 100,
                  !.speed = 10, !.speed_control = 0, !.check_home = 0]

\* "Now move back a bit"
back_off_task(m) ==
  [task[m] EXCEPT !.direction = 1, !.steps = TruncDiv(BACK_OFF_NM, step_nm(m)),
                  !.speed = 10, !.speed_control = 0, !.check_home = 0]

\* "Now try to reach home slowly"
slow_task(m) ==
  [task[m] EXCEPT !.steps = TruncDiv(PNP_MAX_Y_NM, step_nm(m)),
                  !.check_home = 1, !.speed = 2, !.speed_control = 0,
                  !.direction = 0]

\* "Now go into home for 1 mm"
settle_task(m) ==
  [task[m] EXCEPT !.steps = TruncDiv(SETTLE_NM, step_nm(m)),
                  !.check_home = 0, !.speed = 2, !.speed_control = 0,
                  !.direction = 0]

\* if (motor->is_at_home() == 0) panic("we are still not at home")
still_not_home(at_home) == ~at_home

still_at_home_never(at_home) == FALSE

\* if (motor->is_at_home()) panic("still at home")
still_at_home(at_home) == at_home

\* pnp_move_home_motor(motor) up to its first wait: the fast approach when
\* the sensor reads false; otherwise the panic check passes and the
\* back-off move is handed over.
home_motor_begin(m) ==
  /\ co' = [co EXCEPT !.motor = m, !.error = 0]
  /\ IF ~is_at_home(m)
       THEN post_task(m, fast_task(m)) /\ pc' = "hm_fast_wait"
       ELSE post_task(m, back_off_task(m)) /\ pc' = "hm_back_wait"

\* The wait after the fast approach, the panic check, the back-off move.
home_motor_fast_wait ==
  /\ pc = "hm_fast_wait"
  /\ wait_compl(co.motor)
  /\ IF still_not_home(is_at_home(co.motor))
       THEN pc' = "panic" /\ UNCHANGED <<task, worker_sem>>
       ELSE post_task(co.motor, back_off_task(co.motor)) /\ pc' = "hm_back_wait"
  /\ UNCHANGED <<steps, step_sem, worker, pwm, dirpin, phys, co, pulsed, log,
                 env_vars>>

\* The wait after the back-off move, the panic check, the slow approach.
home_motor_back_wait ==
  /\ pc = "hm_back_wait"
  /\ wait_compl(co.motor)
  /\ IF still_at_home(is_at_home(co.motor))
       THEN pc' = "panic" /\ UNCHANGED <<task, worker_sem>>
       ELSE post_task(co.motor, slow_task(co.motor)) /\ pc' = "hm_slow_wait"
  /\ UNCHANGED <<steps, step_sem, worker, pwm, dirpin, phys, co, pulsed, log,
                 env_vars>>

\* The wait after the slow approach, then the settle move.
home_motor_slow_wait ==
  /\ pc = "hm_slow_wait"
  /\ wait_compl(co.motor)
  /\ post_task(co.motor, settle_task(co.motor))
  /\ pc' = "hm_settle_wait"
  /\ UNCHANGED <<steps, step_sem, worker, pwm, dirpin, phys, co, pulsed, log,
                 env_vars>>

\* The wait after the settle move, motor->steps = 0 and return.
home_motor_settle_wait ==
  /\ pc = "hm_settle_wait"
  /\ wait_compl(co.motor)
  /\ steps' = [steps EXCEPT ![co.motor] = 0]
  /\ log' = Append(log, <<"homed", co.motor>>)
  /\ pc' = "hm_ret"
  /\ UNCHANGED <<task, worker_sem, step_sem, worker, pwm, dirpin, phys, co,
                 pulsed, env_vars>>


\* pnp_move_home_motor(&pnp.motor_y); pnp_move_home_motor(&pnp.motor_x);
HomeMotorOrder == <<"y", "x">>

home_z_failed_never(error) == FALSE

\* error = pnp_move_home_z(&pnp.motor_z); if (error) return (error);
home_z_failed(error) == error # 0

\* pnp_move_home after pnp_move_home_z has returned.
move_home_after_z ==
  /\ pc = "hz_ret"
  /\ co.top = "home"
  /\ IF home_z_failed(co.error)
       THEN pc' = "home_ret" /\ UNCHANGED <<co, task, worker_sem>>
       ELSE home_motor_begin(HomeMotorOrder[1])
  /\ UNCHANGED <<steps, step_sem, task_compl_sem, worker, pwm, dirpin, phys,
                 pulsed, log, env_vars>>

\* pnp_move_home after a pnp_move_home_motor has returned: the next motor,
\* or return (0).
move_home_after_motor ==
  /\ pc = "hm_ret"
  /\ IF co.motor = HomeMotorOrder[1]
       THEN home_motor_begin(HomeMotorOrder[2])
       ELSE pc' = "home_ret" /\ UNCHANGED <<co, task, worker_sem>>
  /\ UNCHANGED <<steps, step_sem, task_compl_sem, worker, pwm, dirpin, phys,
                 pulsed, log, env_vars>>

\* pnp_move_home returns to pnp_main.
move_home_return ==
  /\ pc = "home_ret"
  /\ pc' = "idle"
  /\ co' = NoCall
  /\ UNCHANGED <<axis_vars, pulsed, log, env_vars>>

\* Where Z, Y and X rest when homing begins (Z relative to the middle of
\* its band, X and Y relative to their home edge) and the condition of
\* their sensors.
HomeHardware ==
  {[z |-> [phys |-> -100, sensor |-> "ok"], y |-> [phys |-> 50, sensor |-> "ok"],
    x |-> [phys |-> 30, sensor |-> "ok"]],
   [z |-> [phys |-> 0, sensor |-> "stuck0"], y |-> [phys |-> 50, sensor |-> "ok"],
    x |-> [phys |-> 30, sensor |-> "ok"]],
   [z |-> [phys |-> 0, sensor |-> "ok"], y |-> [phys |-> 0, sensor |-> "ok"],
    x |-> [phys |-> 30, sensor |-> "stuck1"]],
   [z |-> [phys |-> -100, sensor |-> "ok"], y |-> [phys |-> 50, sensor |-> "stuck0"],
    x |-> [phys |-> 30, sensor |-> "ok"]]}

InitHome ==
  /\ InitAxes
  /\ InitCam
  /\ driven = {"x", "y", "z"}
  /\ \E hw \in HomeHardware :
       /\ phys = [m \in Motors |-> IF m \in {"x", "y", "z"} THEN hw[m].phys
                                                             ELSE 1000]
       /\ sensor = [m \in Motors |-> IF m \in {"x", "y", "z"} THEN hw[m].sensor
                                                               ELSE "ok"]

NextHome ==
  \/ home_z_call("home")
  \/ home_z_leave_wait
  \/ home_z_search_wait
  \/ home_z_seat_wait
  \/ move_home_after_z
  \/ home_motor_fast_wait
  \/ home_motor_back_wait
  \/ home_motor_slow_wait
  \/ home_motor_settle_wait
  \/ move_home_after_motor
  \/ move_home_return
  \/ \E m \in Motors : worker_take(m)
  \/ \E m \in Motors : worker_loop(m)
  \/ \E m \in Motors : pnp_pwm_intr(m)
  \/ \E m \in Motors : worker_count(m)

\* pnp_main homing the machine with pnp_move_home.
SpecHome == InitHome /\ [][NextHome]_vars

(* ------------------------------------------------------------------ *)
(* pnp_test_z: Z homed, then moved with pnp_move                       *)
(* ------------------------------------------------------------------ *)
\* error = pnp_move_home_z(&pnp.motor_z); if (error) return (error);
\* the moves follow only a successful homing.
test_z_move(new_pos) ==
  /\ Len(log) > 0
  /\ pnp_move_call("z", new_pos)

NextTestZ ==
  \/ home_z_call("none")
  \/ home_z_leave_wait
  \/ home_z_search_wait
  \/ home_z_seat_wait
  \/ home_z_return
  \/ \E p \in Targets("z") : test_z_move(p)
  \/ pnp_move_wait
  \/ pnp_move_return
  \/ \E m \in Motors : worker_take(m)
  \/ \E m \in Motors : worker_loop(m)
  \/ \E m \in Motors : pnp_pwm_intr(m)
  \/ \E m \in Motors : worker_count(m)

\* Worker threads and pulse interrupts are not held up for ever: while one
\* of a kind can run, one of that kind does run in the end.
WorkerFairness ==
  /\ WF_vars(\E m \in Motors : worker_take(m))
  /\ WF_vars(\E m \in Motors : worker_loop(m))
  /\ WF_vars(\E m \in Motors : pnp_pwm_intr(m))
  /\ WF_vars(\E m \in Motors : worker_count(m))

SpecTestZ == InitHomeZ /\ [][NextTestZ]_vars /\ WorkerFairness

(* ------------------------------------------------------------------ *)
(* pnp_move_home called again on the machine it has homed              *)
(* ------------------------------------------------------------------ *)
\* Number of pnp_move_home calls made one after another.
MaxHomeRuns == 2

\* pnp_move_home is entered: its first statement is the call of
\* pnp_move_home_z.
move_home_call ==
  /\ calls < MaxHomeRuns
  /\ calls' = calls + 1
  /\ home_z_enter("home")

\* Starting positions with every sensor healthy: Z below, inside and above
\* its band, Y and X away from home or on the home edge.
HealthyHardware ==
  {[z |-> -100, y |-> 50, x |-> 30], [z |-> 0, y |-> 0, x |-> 30],
   [z |-> 300, y |-> 50, x |-> 0]}

InitHomeTwice ==
  /\ InitAxes
  /\ InitCam
  /\ driven = {"x", "y", "z"}
  /\ sensor = [m \in Motors |-> "ok"]
  /\ \E hw \in HealthyHardware :
       phys = [m \in Motors |-> IF m \in {"x", "y", "z"} THEN hw[m] ELSE 1000]

NextHomeTwice ==
  \/ move_home_call
  \/ home_z_leave_wait
  \/ home_z_search_wait
  \/ home_z_seat_wait
  \/ move_home_after_z
  \/ home_motor_fast_wait
  \/ home_motor_back_wait
  \/ home_motor_slow_wait
  \/ home_motor_settle_wait
  \/ move_home_after_motor
  \/ move_home_return
  \/ \E m \in Motors : worker_take(m)
  \/ \E m \in Motors : worker_loop(m)
  \/ \E m \in Motors : pnp_pwm_intr(m)
  \/ \E m \in Motors : worker_count(m)

\* pnp_move_home called MaxHomeRuns times in a row.  The hardware is not
\* touched between the calls; every thread that can run does so in the end.
SpecHomeTwice == InitHomeTwice /\ [][NextHomeTwice]_vars /\ WF_vars(NextHomeTwice)

(* ------------------------------------------------------------------ *)
(* A caller of pnp_move_nonblock that does not wait between calls      *)
(* ------------------------------------------------------------------ *)
\* pnp_move_nonblock(motor, new_pos) called on its own, whatever the state
\* of the axis: the function tests nothing but the transform and the limits.
nonblock_enter(m, new_pos) ==
  /\ pc = "idle"
  /\ \E tr \in TransformOutcomes(m, new_pos) :
       LET r == move_nonblock_result(m, new_pos, tr)
       IN /\ pnp_move_nonblock(m, r)
          /\ co' = [NoCall EXCEPT !.motor = m, !.new_pos = new_pos,
                                  !.cam_error = tr.error,
                                  !.conv = r.conv, !.new_steps = r.new_steps,
                                  !.error = r.error]
  /\ UNCHANGED <<steps, step_sem, task_compl_sem, worker, pwm, dirpin, phys,
                 pc, pulsed, log, cam_radius, sensor, driven, ramp,
                 set_direction>>

\* One bare call of the run.
nonblock_call(m, new_pos) ==
  /\ calls < MaxNonblockCalls
  /\ calls' = calls + 1
  /\ nonblock_enter(m, new_pos)

\* The caller consumes a completion signal of m.
nonblock_wait(m) ==
  /\ pc = "idle"
  /\ wait_compl(m)
  /\ UNCHANGED <<steps, task, worker_sem, step_sem, worker, pwm, dirpin, phys,
                 pc, co, pulsed, log, env_vars>>

InitNonblock ==
  /\ InitAxes
  /\ InitCam
  /\ InitHwClear
  /\ driven \in {{"x"}, {"h1"}}

NextNonblock ==
  \/ \E m \in driven : \E p \in Targets(m) : nonblock_call(m, p)
  \/ \E m \in driven : nonblock_wait(m)
  \/ \E m \in Motors : worker_take(m)
  \/ \E m \in Motors : worker_loop(m)
  \/ \E m \in Motors : pnp_pwm_intr(m)
  \/ \E m \in Motors : worker_count(m)

SpecNonblock == InitNonblock /\ [][NextNonblock]_vars

(* ------------------------------------------------------------------ *)
(* pnp_move over a distance longer than both ramps                     *)
(* ------------------------------------------------------------------ *)
\* Length in steps of the long move: the shortest one with a step that is
\* 1000 steps away from both ends.
LongMoveSteps == 2000

\* Home and the far end of the long move.
LongTargets(m) == {0, LongMoveSteps * step_nm(m)}

InitMoveLong ==
  /\ InitAxes
  /\ InitCam
  /\ InitHwClear
  /\ driven \in {{"x"}, {"h1"}}

NextMoveLong ==
  \/ \E m \in driven : \E p \in LongTargets(m) : pnp_move_call(m, p)
  \/ pnp_move_wait
  \/ pnp_move_return
  \/ \E m \in Motors : worker_take(m)
  \/ \E m \in Motors : worker_loop(m)
  \/ \E m \in Motors : pnp_pwm_intr(m)
  \/ \E m \in Motors : worker_count(m)

\* A caller that moves one axis back and forth with pnp_move.
SpecMoveLong == InitMoveLong /\ [][NextMoveLong]_vars

(* ------------------------------------------------------------------ *)
(* calc_speed on its own                                               *)
(* ------------------------------------------------------------------ *)
\* Arguments on both sides of the 150-step floor region, of the 1000-step
\* ramp length and of the middle of a move.
RampPositions == {0, 1, 149, 150, 160, 999, 1000, 1001, 2500}

RampTotals == {0, 1, 300, 1999, 2000, 2001, 3000}

\* Target speeds on both sides of the floor 15, and the value 100 that
\* pnp_move_nonblock writes.
RampSpeeds == {0, 2, 14, 15, 16, 100}

\* return (speed) of one call calc_speed(i, steps, speed).
ramp_apply ==
  /\ ~ramp.done
  /\ ramp' = [ramp EXCEPT !.out = calc_speed(ramp.i, ramp.total, ramp.speed),
                          !.done = TRUE]
  /\ UNCHANGED <<axis_vars, pc, co, pulsed, log, cam_radius, sensor, driven,
                 calls, set_direction>>

InitRamp ==
  /\ steps = [m \in Motors |-> 0]
  /\ task = [m \in Motors |-> ZeroTask]
  /\ worker_sem = [m \in Motors |-> 0]
  /\ step_sem = [m \in Motors |-> 0]
  /\ task_compl_sem = [m \in Motors |-> 0]
  /\ worker = [m \in Motors |-> ZeroWorker]
  /\ pwm = [m \in Motors |-> NoPulse]
  /\ dirpin = [m \in Motors |-> 0]
  /\ pc = "idle"
  /\ co = NoCall
  /\ calls = 0
  /\ pulsed = [m \in Motors |-> FALSE]
  /\ log = <<>>
  /\ InitCam
  /\ InitHwClear
  /\ driven = {}
  /\ InitDirection
  /\ ramp \in [i : RampPositions, total : RampTotals, speed : RampSpeeds,
                out : {0}, done : {FALSE}]

NextRamp == ramp_apply

\* calc_speed evaluated once on each combination of arguments.
SpecRamp == InitRamp /\ [][NextRamp]_vars

(* ------------------------------------------------------------------ *)
(* pnp_move_home with a Y home sensor that fails during the run        *)
(* ------------------------------------------------------------------ *)
\* The pin of the home sensor of m stops reporting home (a broken wire):
\* from now on pin_get reads 0 whatever the position.
sensor_break(m) ==
  /\ sensor[m] = "ok"
  /\ sensor' = [sensor EXCEPT ![m] = "stuck0"]
  /\ UNCHANGED <<axis_vars, pc, co, pulsed, log, cam_radius, driven, calls,
                 ramp, set_direction>>

InitHomeFault ==
  /\ InitAxes
  /\ InitCam
  /\ driven = {"x", "y", "z"}
  /\ sensor = [m \in Motors |-> "ok"]
  /\ phys = [m \in Motors |->
              CASE m = "z" -> 0 [] m = "y" -> 50 [] m = "x" -> 30
                [] OTHER -> 1000]

NextHomeFault ==
  \/ home_z_call("home")
  \/ home_z_leave_wait
  \/ home_z_search_wait
  \/ home_z_seat_wait
  \/ move_home_after_z
  \/ home_motor_fast_wait
  \/ home_motor_back_wait
  \/ home_motor_slow_wait
  \/ home_motor_settle_wait
  \/ move_home_after_motor
  \/ move_home_return
  \/ sensor_break("y")
  \/ \E m \in Motors : worker_take(m)
  \/ \E m \in Motors : worker_loop(m)
  \/ \E m \in Motors : pnp_pwm_intr(m)
  \/ \E m \in Motors : worker_count(m)

\* pnp_main homing the machine while the Y home sensor may fail.
SpecHomeFault == InitHomeFault /\ [][NextHomeFault]_vars

(* ------------------------------------------------------------------ *)
(* Coordinator: pnp_move_xy                                            *)
(* ------------------------------------------------------------------ *)
\* Positions handed to pnp_move_xy for an axis: home, one step, and one
\* step beyond steps_max.
XYTargets(m) == {0, step_nm(m), (steps_max(m) + 1) * step_nm(m)}

\* pnp_move_xy(new_pos_x, new_pos_y) is entered and calls
\* pnp_move_nonblock for X; the return value is ignored.  The uint32_t
\* arguments are passed on as int.
move_xy_enter(px, py) ==
  /\ pc = "idle"
  /\ \E tr \in TransformOutcomes("x", int_of(uint32_of(px))) :
       pnp_move_nonblock("x",
         move_nonblock_result("x", int_of(uint32_of(px)), tr))
  /\ co' = [NoCall EXCEPT !.top = "xy",
                          !.cmd = [NoCmd EXCEPT !["x"] = [set |-> TRUE, val |-> px],
                                                !["y"] = [set |-> TRUE, val |-> py]]]
  /\ pc' = "xy_issue_y"
  /\ pulsed' = [m \in Motors |-> FALSE]
  /\ log' = <<>>
  /\ UNCHANGED <<steps, step_sem, task_compl_sem, worker, pwm, dirpin, phys,
                 cam_radius, sensor, driven, ramp,
                 set_direction>>

\* pnp_move_nonblock for Y; the return value is ignored.
move_xy_issue_y ==
  /\ pc = "xy_issue_y"
  /\ \E tr \in TransformOutcomes("y", int_of(uint32_of(co.cmd["y"].val))) :
       pnp_move_nonblock("y",
         move_nonblock_result("y", int_of(uint32_of(co.cmd["y"].val)), tr))
  /\ pc' = "xy_wait_x"
  /\ UNCHANGED <<steps, step_sem, task_compl_sem, worker, pwm, dirpin, phys,
                 co, pulsed, log, env_vars>>

\* mdx_sem_wait(&pnp.motor_x.task.task_compl_sem)
move_xy_wait_x ==
  /\ pc = "xy_wait_x"
  /\ wait_compl("x")
  /\ pc' = "xy_wait_y"
  /\ UNCHANGED <<steps, task, worker_sem, step_sem, worker, pwm, dirpin, phys,
                 co, pulsed, log, env_vars>>

move_xy_wait_y_skipped ==
  /\ pc = "xy_wait_y"
  /\ pc' = "xy_ret"
  /\ UNCHANGED <<steps, task, worker_sem, step_sem, task_compl_sem, worker, pwm,
                 dirpin, phys, co, pulsed, log, env_vars>>

\* mdx_sem_wait(&pnp.motor_y.task.task_compl_sem)
move_xy_wait_y ==
  /\ pc = "xy_wait_y"
  /\ wait_compl("y")
  /\ pc' = "xy_ret"
  /\ UNCHANGED <<steps, task, worker_sem, step_sem, worker, pwm, dirpin, phys,
                 co, pulsed, log, env_vars>>

\* return (0)
move_xy_return ==
  /\ pc = "xy_ret"
  /\ pc' = "idle"
  /\ co' = NoCall
  /\ UNCHANGED <<axis_vars, pulsed, log, env_vars>>

(* ------------------------------------------------------------------ *)
(* One coordinator context using every entry point                     *)
(* ------------------------------------------------------------------ *)
\* Number of entry-point calls made in one run, pnp_move_home included.
MaxSessionCalls == 2

\* One more call of the run.
session_next_call ==
  /\ calls < MaxSessionCalls
  /\ calls' = calls + 1

session_move(m, new_pos) == session_next_call /\ pnp_move_enter(m, new_pos)

session_move_xy(px, py) == session_next_call /\ move_xy_enter(px, py)

session_command(cmd) == session_next_call /\ command_move_enter(cmd)

\* pnp_move_home, called as in pnp_main before any positioning.
session_home ==
  /\ calls = 0
  /\ calls' = calls + 1
  /\ home_z_enter("home")

InitSession ==
  /\ InitAxes
  /\ InitCam
  /\ driven = {"x", "y", "z"}
  /\ sensor = [m \in Motors |-> "ok"]
  /\ phys = [m \in Motors |->
              CASE m = "z" -> 0 [] m = "y" -> 50 [] m = "x" -> 30
                [] OTHER -> 1000]

NextSession ==
  \/ session_home
  \/ home_z_leave_wait
  \/ home_z_search_wait
  \/ home_z_seat_wait
  \/ move_home_after_z
  \/ home_motor_fast_wait
  \/ home_motor_back_wait
  \/ home_motor_slow_wait
  \/ home_motor_settle_wait
  \/ move_home_after_motor
  \/ move_home_return
  \/ \E m \in driven : \E p \in Targets(m) : session_move(m, p)
  \/ pnp_move_wait
  \/ pnp_move_return
  \/ \E px \in XYTargets("x") : \E py \in XYTargets("y") : session_move_xy(px, py)
  \/ move_xy_issue_y
  \/ move_xy_wait_x
  \/ move_xy_wait_y
  \/ move_xy_return
  \/ pc = "idle" /\ \E c \in Commands : session_command(c)
  \/ command_move_issue
  \/ command_move_wait
  \/ command_move_z
  \/ command_move_z_wait
  \/ command_move_return
  \/ \E m \in Motors : worker_take(m)
  \/ \E m \in Motors : worker_loop(m)
  \/ \E m \in Motors : pnp_pwm_intr(m)
  \/ \E m \in Motors : worker_count(m)

\* The coordinator thread, once inside an entry point, runs whenever it is
\* not blocked on a semaphore.
SessionProgress ==
  \/ home_z_leave_wait \/ home_z_search_wait \/ home_z_seat_wait
  \/ move_home_after_z \/ home_motor_fast_wait \/ home_motor_back_wait
  \/ home_motor_slow_wait \/ home_motor_settle_wait
  \/ move_home_after_motor \/ move_home_return
  \/ pnp_move_wait \/ pnp_move_return
  \/ move_xy_issue_y \/ move_xy_wait_x \/ move_xy_wait_y \/ move_xy_return
  \/ command_move_issue \/ command_move_wait \/ command_move_z
  \/ command_move_z_wait \/ command_move_return

\* The coordinator calls its entry points one after another, each call
\* made when the previous one has returned.
SpecSession ==
  InitSession /\ [][NextSession]_vars /\ WorkerFairness
    /\ WF_vars(SessionProgress)

(* ------------------------------------------------------------------ *)
(* pnp_main                                                            *)
(* ------------------------------------------------------------------ *)
\* The six pnp_move calls of pnp_test_heads, in order.
HeadMoves ==
  <<[motor |-> "h1", pos |-> 10000000], [motor |-> "h2", pos |-> 10000000],
    [motor |-> "h1", pos |-> -10000000], [motor |-> "h2", pos |-> -10000000],
    [motor |-> "h1", pos |-> 0], [motor |-> "h2", pos |-> 0]>>

\* pnp_test_heads(): the next pnp_move of the sequence.  The variable
\* calls counts the calls pnp_main has made.
main_test_heads ==
  /\ calls < Len(HeadMoves)
  /\ calls' = calls + 1
  /\ pnp_move_enter(HeadMoves[calls + 1].motor, HeadMoves[calls + 1].pos)

\* error = pnp_move_home();
main_move_home ==
  /\ calls = Len(HeadMoves)
  /\ calls' = calls + 1
  /\ home_z_enter("home")

\* if (error) return (error); pnp_move_xy(0, PNP_MAX_Y_NM);
main_move_xy ==
  /\ calls = Len(HeadMoves) + 1
  /\ \E k \in 1 .. Len(log) : log[k] = <<"homed", "x">>
  /\ calls' = calls + 1
  /\ move_xy_enter(0, PNP_MAX_Y_NM)

\* "Change location of 0,0": pnp.motor_y.steps = 0;
\* pnp.motor_y.set_direction = pnp_yset_direction_rev;
main_change_origin ==
  /\ calls = Len(HeadMoves) + 2
  /\ pc = "idle"
  /\ calls' = calls + 1
  /\ steps' = [steps EXCEPT !["y"] = 0]
  /\ set_direction' = [set_direction EXCEPT !["y"] = "rev"]
  /\ UNCHANGED <<task, worker_sem, step_sem, task_compl_sem, worker, pwm,
                 dirpin, phys, pc, co, pulsed, log, cam_radius, sensor, driven,
                 ramp>>

\* gcode_mainloop(): the interpreter hands one move command to
\* pnp_command_move.
main_command(cmd) ==
  /\ calls = Len(HeadMoves) + 3
  /\ calls' = calls + 1
  /\ command_move_enter(cmd)

InitMain ==
  /\ InitAxes
  /\ InitCam
  /\ driven = {"y", "z"}
  /\ sensor = [m \in Motors |-> "ok"]
  /\ phys = [m \in Motors |->
              CASE m = "z" -> 0 [] m = "y" -> 50 [] m = "x" -> 30
                [] OTHER -> 1000]

NextMain ==
  \/ main_test_heads
  \/ pnp_move_wait
  \/ pnp_move_return
  \/ main_move_home
  \/ home_z_leave_wait
  \/ home_z_search_wait
  \/ home_z_seat_wait
  \/ move_home_after_z
  \/ home_motor_fast_wait
  \/ home_motor_back_wait
  \/ home_motor_slow_wait
  \/ home_motor_settle_wait
  \/ move_home_after_motor
  \/ move_home_return
  \/ main_move_xy
  \/ move_xy_issue_y
  \/ move_xy_wait_x
  \/ move_xy_wait_y
  \/ move_xy_return
  \/ main_change_origin
  \/ pc = "idle" /\ \E c \in Commands : main_command(c)
  \/ command_move_issue
  \/ command_move_wait
  \/ command_move_z
  \/ command_move_z_wait
  \/ command_move_return
  \/ \E m \in Motors : worker_take(m)
  \/ \E m \in Motors : worker_loop(m)
  \/ \E m \in Motors : pnp_pwm_intr(m)
  \/ \E m \in Motors : worker_count(m)

\* pnp_main from pnp_initialize to the first command of the interpreter.
SpecMain == InitMain /\ [][NextMain]_vars

(* ------------------------------------------------------------------ *)
(* pnp_move_home, then bare pnp_move_nonblock calls on the homed X     *)
(* ------------------------------------------------------------------ *)
\* A bare call on X once pnp_move_home has homed it.
homed_nonblock_call(new_pos) ==
  /\ \E k \in 1 .. Len(log) : log[k] = <<"homed", "x">>
  /\ calls < MaxHomes + MaxNonblockCalls
  /\ calls' = calls + 1
  /\ nonblock_enter("x", new_pos)

InitHomedNonblock ==
  /\ InitAxes
  /\ InitCam
  /\ driven = {"x"}
  /\ sensor = [m \in Motors |-> "ok"]
  /\ phys \in {[m \in Motors |-> IF m \in {"x", "y", "z"} THEN hw[m] ELSE 1000] :
                hw \in {[z |-> -100, y |-> 50, x |-> 30],
                         [z |-> 0, y |-> 0, x |-> 0]}}

NextHomedNonblock ==
  \/ home_z_call("home")
  \/ home_z_leave_wait
  \/ home_z_search_wait
  \/ home_z_seat_wait
  \/ move_home_after_z
  \/ home_motor_fast_wait
  \/ home_motor_back_wait
  \/ home_motor_slow_wait
  \/ home_motor_settle_wait
  \/ move_home_after_motor
  \/ move_home_return
  \/ \E p \in Targets("x") : homed_nonblock_call(p)
  \/ nonblock_wait("x")
  \/ \E m \in Motors : worker_take(m)
  \/ \E m \in Motors : worker_loop(m)
  \/ \E m \in Motors : pnp_pwm_intr(m)
  \/ \E m \in Motors : worker_count(m)

SpecHomedNonblock == InitHomedNonblock /\ [][NextHomedNonblock]_vars

(* ------------------------------------------------------------------ *)
(* Claims about pnp_move and pnp_move_nonblock                         *)
(* ------------------------------------------------------------------ *)
\* The step count a call was asked for: the converted position divided by
\* the step size, truncated toward zero.
RequestedSteps(c) == TruncDiv(c.conv, step_nm(c.motor))

WithinLimits(m, ns) == steps_min(m) <= ns /\ ns <= steps_max(m)

\* C1: whenever pnp_move returns from a call whose converted target lies
\* within the limits of the axis, it returns success and position_steps of
\* that axis equals the requested step count exactly.
C1_MoveReachesTarget ==
  (pc = "move_ret" /\ co.error \notin {-1, -2}
     /\ WithinLimits(co.motor, RequestedSteps(co)))
    => /\ co.error = 0
       /\ steps[co.motor] = RequestedSteps(co)

\* A move of two steps backward has returned.
C1_Witness ==
  /\ pc = "move_ret"
  /\ co.error = 0
  /\ task[co.motor].direction = 0
  /\ worker[co.motor].i = 2
  /\ steps[co.motor] = -1

\* C2: a call whose converted step count lies outside the limits returns
\* -3 (LimitExceeded) without posting the task-ready signal, without a
\* pulse and without a change of any position; at its return the worker of
\* the axis is idle and has issued no pulse since the call.
C2_LimitRejected ==
  /\ [][(pc = "idle" /\ pc' # "idle" /\ co'.error \notin {-1, -2}
           /\ ~WithinLimits(co'.motor, RequestedSteps(co')))
          => /\ co'.error = -3
             /\ pc' = "move_ret"
             /\ UNCHANGED <<steps, worker_sem, worker, pwm, step_sem>>]_vars
  /\ []((pc = "move_ret" /\ co.error = -3)
          => /\ worker[co.motor].pc = "idle"
             /\ worker_sem[co.motor] = 0
             /\ ~pwm[co.motor].busy
             /\ ~pulsed[co.motor])

\* A target below steps_min was rejected on an axis that is away from 0.
C2_Witness ==
  /\ pc = "move_ret"
  /\ co.error = -3
  /\ RequestedSteps(co) < steps_min(co.motor)
  /\ steps[co.motor] # 0

\* C9: on an axis with a coordinate transform, a call made with cam radius
\* zero or in which the collaborator reports an error returns -1 or -2,
\* posts no task-ready signal, causes no pulse and changes no position, and
\* pnp_move returns that error without waiting for a completion signal.
C9_TransformRejected ==
  /\ [][(pc = "idle" /\ pc' # "idle" /\ has_cam_translate(co'.motor)
           /\ (cam_radius[co'.motor] = 0 \/ co'.cam_error # 0))
          => /\ co'.error = (IF cam_radius[co'.motor] = 0 THEN -1 ELSE -2)
             /\ pc' = "move_ret"
             /\ UNCHANGED <<steps, worker_sem, worker, pwm, step_sem,
                            task_compl_sem>>]_vars
  /\ []((pc = "move_ret" /\ co.error \in {-1, -2})
          => /\ worker[co.motor].pc = "idle"
             /\ worker_sem[co.motor] = 0
             /\ ~pwm[co.motor].busy
             /\ ~pulsed[co.motor])

\* The collaborator reported an error for an axis that is away from 0.
C9_Witness ==
  /\ pc = "move_ret"
  /\ co.error = -2
  /\ co.cam_error # 0
  /\ steps[co.motor] # 0

(* ------------------------------------------------------------------ *)
(* Claims about pnp_command_move                                       *)
(* ------------------------------------------------------------------ *)
InCommand == pc \in {"cmd_issue", "cmd_wait", "cmd_z", "cmd_z_wait", "cmd_ret"}

\* The coordinator has passed its wait on the completion signal of m.
Observed(m) == \E k \in 1 .. Len(log) : log[k] = <<"wait", m>>

\* A task has been handed to the worker of m, or m has been pulsed, since
\* the command began.
Started(m) ==
  \/ worker_sem[m] > 0
  \/ worker[m].pc # "idle"
  \/ pwm[m].busy
  \/ step_sem[m] > 0
  \/ task_compl_sem[m] > 0
  \/ pulsed[m]

\* The axis is at rest and owes the coordinator no signal.
AtRest(m) ==
  /\ worker_sem[m] = 0
  /\ worker[m].pc = "idle"
  /\ ~pwm[m].busy
  /\ step_sem[m] = 0
  /\ task_compl_sem[m] = 0

\* C3: within command_move, whenever the Z task has been handed over or a
\* Z pulse issued, the coordinator has passed the wait of every axis among
\* H1, H2, X, Y whose field is set, and each of those axes is at rest.
C3_ZStartsLast ==
  (InCommand /\ Started("z"))
    => \A m \in {"h1", "h2", "x", "y"} :
         co.cmd[m].set => Observed(m) /\ AtRest(m)

\* Z is being pulsed in a command that also moved X, Y, H1 and H2.
C3_Witness ==
  /\ pc = "cmd_z_wait"
  /\ pwm["z"].busy
  /\ \A m \in {"h1", "h2", "x", "y"} : co.cmd[m].set /\ pulsed[m]

Tagged(tag, order, cmd) ==
  LET f == SelectSeq(order, LAMBDA m : cmd[m].set)
  IN [k \in 1 .. Len(f) |-> <<tag, f[k]>>]

\* What a command is to do, in order: the non-blocking moves of the set
\* fields among X, Y, H1, H2, then the waits of the set fields in the order
\* H1, H2, X, Y, then the blocking Z move if Z is set.
ExpectedLog(cmd) ==
  Tagged("issue", <<"x", "y", "h1", "h2">>, cmd)
    \o Tagged("wait", <<"h1", "h2", "x", "y">>, cmd)
    \o (IF cmd["z"].set THEN <<(<<"move", "z">>)>> ELSE <<>>)

IsPrefix(a, b) == Len(a) <= Len(b) /\ a = SubSeq(b, 1, Len(a))

\* The field of m asks for a position within the limits of m.
CmdAccepted(cmd, m) ==
  WithinLimits(m, TruncDiv(cmd_new_pos(m, cmd[m].val), step_nm(m)))

\* C10: the calls and waits of command_move follow ExpectedLog: every set
\* field among X, Y, H1, H2 is issued before the first wait, the waits are
\* those of the set fields in the order H1, H2, X, Y, an unset field is
\* neither issued nor waited for, and the blocking Z move comes last; when
\* the waits begin, every accepted task has been handed to its worker.
C10_IssueThenWaitInOrder ==
  InCommand
    => /\ IsPrefix(log, ExpectedLog(co.cmd))
       /\ pc = "cmd_ret" => log = ExpectedLog(co.cmd)
       /\ pc = "cmd_wait"
            => \A m \in {"x", "y", "h1", "h2"} :
                 (co.cmd[m].set /\ CmdAccepted(co.cmd, m))
                   => Started(m) \/ Observed(m)

\* A command with all five fields set has run to its end.
C10_Witness ==
  /\ pc = "cmd_ret"
  /\ \A m \in Motors : co.cmd[m].set
  /\ Len(log) = 9

(* ------------------------------------------------------------------ *)
(* Claims about pnp_move_home_z                                        *)
(* ------------------------------------------------------------------ *)
\* Direction of search iteration k: forward (1) for even k, backward (0)
\* for odd k.
DirOfIter(k) == IF k % 2 = 0 THEN 1 ELSE 0

\* C5: search iteration k requests 100 + 200*k steps with the home check,
\* forward for even k and backward for odd k, and k < 20; when no
\* iteration finds home the routine returns -1 after iteration 19 (i = 20)
\* without handing over another task (no seating move), without a further
\* pulse and without writing position_steps; a sensor that never reports
\* true ends this way.
C5_SearchExhausted ==
  /\ [](pc = "hz_search_wait"
          => /\ co.i < 20
             /\ task["z"].steps = 100 + 200 * co.i
             /\ task["z"].check_home = 1
             /\ task["z"].direction = DirOfIter(co.i))
  /\ []((pc = "hz_ret" /\ co.found = 0)
          => /\ co.error = -1
             /\ co.i = 20
             /\ task["z"].check_home = 1
             /\ AtRest("z"))
  /\ []((pc = "hz_ret" /\ sensor["z"] = "stuck0") => co.found = 0)
  /\ [][(pc = "hz_search_wait" /\ pc' = "hz_ret")
          => UNCHANGED <<steps, task, worker_sem, worker, pwm>>]_vars
  /\ [][(pc = "hz_ret" /\ co.found = 0) => steps' = steps]_vars

\* The search ran out from position 0: 20 iterations, position -2000.
C5_Witness ==
  /\ pc = "hz_ret"
  /\ co.error = -1
  /\ co.i = 20
  /\ steps["z"] = -2000

\* C6: when an iteration k ends with home_found set, the search stops at
\* k (k < 20) and the seating task is handed over: 50 steps, no home
\* check, in the direction of iteration k; the routine then returns 0 with
\* position_steps = 0 after the worker has made exactly those 50 steps in
\* that direction.
C6_SeatAndReset ==
  /\ [][(pc = "hz_search_wait" /\ task["z"].home_found # 0
           /\ task_compl_sem'["z"] < task_compl_sem["z"])
          => /\ pc' = "hz_seat_wait"
             /\ co'.i = co.i
             /\ co'.found = 1]_vars
  /\ [](pc = "hz_seat_wait"
          => /\ co.found = 1
             /\ co.i < 20
             /\ task["z"].steps = 50
             /\ task["z"].check_home = 0
             /\ task["z"].direction = DirOfIter(co.i))
  /\ []((pc = "hz_ret" /\ co.found = 1)
          => /\ co.error = 0
             /\ steps["z"] = 0
             /\ worker["z"].steps = 50
             /\ worker["z"].i = 50
             /\ dirpin["z"] = DirOfIter(co.i)
             /\ AtRest("z"))

\* Home was found in iteration 3, a backward one, and Z homing returned.
C6_Witness ==
  /\ pc = "hz_ret"
  /\ co.error = 0
  /\ co.i = 3
  /\ dirpin["z"] = 0
  /\ steps["z"] = 0

(* ------------------------------------------------------------------ *)
(* Claims about pnp_move_home and pnp_move_home_motor                  *)
(* ------------------------------------------------------------------ *)
\* The homing routine of m has returned success in the current call.
Homed(m) == \E k \in 1 .. Len(log) : log[k] = <<"homed", m>>

\* C4: in move_home, Y has a task or a pulse only after Z homing returned
\* success, and X only after Y homing returned; when Z homing fails,
\* move_home returns that error (-1) and neither Y nor X has been handed a
\* task or pulsed.
C4_HomeOrder ==
  /\ Started("y") => Homed("z") /\ AtRest("z") /\ steps["z"] = 0
  /\ Started("x") => Homed("y") /\ AtRest("y") /\ steps["y"] = 0
  /\ (pc = "home_ret" /\ ~Homed("z"))
       => /\ co.error = -1
          /\ ~Started("y")
          /\ ~Started("x")
  /\ (pc = "home_ret" /\ Homed("z"))
       => co.error = 0 /\ Homed("y") /\ Homed("x")

\* move_home has homed Z, then Y, then X, each with pulses, and returned.
C4_Witness ==
  /\ pc = "home_ret"
  /\ co.error = 0
  /\ log = <<(<<"homed", "z">>), (<<"homed", "y">>), (<<"homed", "x">>)>>
  /\ \A m \in {"x", "y", "z"} : pulsed[m]

\* C7: when the sensor reads false after the fast approach, or true after
\* the back-off move, pnp_move_home_motor panics: no task is handed over,
\* nothing changes afterwards (no pulse, no reset of position_steps, no
\* return); whenever the routine returns, position_steps of its axis is 0.
C7_HomingSensorFault ==
  /\ [][(pc = "hm_fast_wait"
           /\ task_compl_sem'[co.motor] < task_compl_sem[co.motor]
           /\ ~is_at_home(co.motor))
          => /\ pc' = "panic"
             /\ UNCHANGED <<steps, task, worker_sem, worker, pwm>>]_vars
  /\ [][(pc = "hm_back_wait"
           /\ task_compl_sem'[co.motor] < task_compl_sem[co.motor]
           /\ is_at_home(co.motor))
          => /\ pc' = "panic"
             /\ UNCHANGED <<steps, task, worker_sem, worker, pwm>>]_vars
  /\ [][pc = "panic" => UNCHANGED vars]_vars
  /\ [](pc = "panic" => AtRest(co.motor) /\ ~Homed(co.motor))
  /\ [](pc = "hm_ret" => steps[co.motor] = 0 /\ AtRest(co.motor))

\* The fast approach ran its full length without the sensor reading true.
C7_Witness ==
  /\ pc = "panic"
  /\ task[co.motor].check_home = 1
  /\ worker[co.motor].i = 58880
  /\ steps[co.motor] = -58880

(* ------------------------------------------------------------------ *)
(* Claim about repeated pnp_move_nonblock calls                        *)
(* ------------------------------------------------------------------ *)
\* A task of m has been handed over and its completion signal has not been
\* consumed yet.
InFlight(m) ==
  \/ worker_sem[m] > 0
  \/ worker[m].pc # "idle"
  \/ task_compl_sem[m] > 0

\* C8: a call of pnp_move_nonblock on an axis whose previous task is still
\* in flight leaves the fields of that task as they are and posts no
\* second task-ready signal.
C8_SecondCallRejected ==
  [][(calls' = calls + 1 /\ InFlight(co'.motor))
       => /\ task'[co'.motor] = task[co'.motor]
          /\ worker_sem'[co'.motor] = worker_sem[co'.motor]]_vars

(* ------------------------------------------------------------------ *)
(* Claim about calc_speed                                              *)
(* ------------------------------------------------------------------ *)
\* C11: calc_speed(i, steps, speed) returns a value of at least 15 for
\* every i >= 0, every steps >= 0 and every target speed, target speeds
\* below 15 and positions at least 1000 steps from both ends included.
C11_RampAtLeastMin == ramp.done => ramp.out >= 15

(* ------------------------------------------------------------------ *)
(* Claim about repeated homing                                         *)
(* ------------------------------------------------------------------ *)
\* C12: with healthy sensors that are a fixed function of the physical
\* position, pnp_move_home called twice in a row completes both times
\* (no panic, no error return), and each time it returns the step counts
\* of Z, Y and X are 0.
C12_HomeTwice ==
  /\ [](pc # "panic")
  /\ [](pc = "home_ret" =>
         /\ co.error = 0
         /\ \A m \in {"x", "y", "z"} : steps[m] = 0)
  /\ \A n \in 1 .. MaxHomeRuns : <>(calls = n /\ pc = "home_ret")

\* The second call has returned: all three axes were already homed when it
\* began and are homed again.
C12_Witness ==
  /\ calls = MaxHomeRuns
  /\ pc = "home_ret"
  /\ co.error = 0
  /\ \A m \in {"x", "y", "z"} : steps[m] = 0 /\ is_at_home(m)

(* ------------------------------------------------------------------ *)
(* Claims about the axis worker                                        *)
(* ------------------------------------------------------------------ *)
\* The worker of m requests a pulse in this step.
PulseIssued(m) == pwm'[m].busy /\ ~pwm[m].busy

\* C13: the pulse of step i of a task with speed control is requested at
\* calc_speed(i, steps, target speed), with the target speed the task was
\* handed over with, so every step at least 1000 steps from both ends is
\* pulsed at the target speed; without speed control every pulse is
\* requested at the target speed.
C13_PulseAtRampOfTarget ==
  [][\A m \in Motors :
       PulseIssued(m) =>
         pwm'[m].speed =
           IF task[m].speed_control # 0
             THEN calc_speed(worker[m].i, worker[m].steps, task[m].speed)
             ELSE task[m].speed]_vars

\* Pulses of m requested and not yet seen by its worker.
Outstanding(m) == (IF pwm[m].busy THEN 1 ELSE 0) + step_sem[m]

\* A step of the worker thread of m.
WorkerStep(m) == worker'[m] # worker[m]

\* C14: the worker requests a pulse only when no earlier pulse of its axis
\* is outstanding, so at most one pulse per axis is outstanding and only
\* while the worker waits for it; the worker changes motor->steps only in
\* the step in which it takes a pulse-completion signal, by +1 when the
\* task direction is 1 and by -1 otherwise, once per signal.
C14_PulsesInOrder ==
  /\ [](\A m \in Motors :
          /\ Outstanding(m) <= 1
          /\ Outstanding(m) = 1 <=> worker[m].pc = "wait_step")
  /\ [][\A m \in Motors :
          /\ PulseIssued(m) => Outstanding(m) = 0
          /\ (WorkerStep(m) /\ steps'[m] # steps[m]) =>
               /\ step_sem[m] > 0
               /\ step_sem'[m] = step_sem[m] - 1
               /\ steps'[m] = IF task[m].direction = 1 THEN steps[m] + 1
                                                       ELSE steps[m] - 1
               /\ worker'[m].i = worker[m].i + 1
          /\ step_sem'[m] < step_sem[m] =>
               (WorkerStep(m) /\ steps'[m] # steps[m])]_vars

\* The second pulse of a task is outstanding and the first one has been
\* counted.
C14_Witness ==
  \E m \in Motors :
    /\ worker[m].i = 1
    /\ pwm[m].busy
    /\ Abs(steps[m] - worker[m].start) = 1

\* The worker of m leaves its step loop in this step.
TaskEnds(m) == worker[m].pc = "loop" /\ worker'[m].pc = "idle"

\* C15: a worker starts a task only by taking a task-ready signal, posts
\* the completion signal exactly once when it leaves the step loop (after
\* all steps, after zero steps, or on the home check) and at no other
\* time, and every task started by the worker of the driven axis Z ends.
C15_OneCompletionPerTask ==
  /\ [][\A m \in Motors :
          /\ (worker[m].pc = "idle" /\ worker'[m].pc # "idle") =>
               (worker_sem[m] > 0 /\ worker_sem'[m] = worker_sem[m] - 1)
          /\ worker_sem'[m] < worker_sem[m] =>
               (worker[m].pc = "idle" /\ worker'[m].pc = "loop")
          /\ TaskEnds(m) => task_compl_sem'[m] = task_compl_sem[m] + 1
          /\ task_compl_sem'[m] > task_compl_sem[m] => TaskEnds(m)
          /\ worker'[m].pc = "idle" =>
               (worker[m].pc = "idle" \/ TaskEnds(m))]_vars
  /\ (worker["z"].pc # "idle") ~> (worker["z"].pc = "idle")

\* A task stopped by the home check before its last step has been answered
\* with one completion signal.
C15_Witness ==
  \E m \in Motors :
    /\ worker[m].pc = "idle"
    /\ task[m].home_found = 1
    /\ worker[m].i < worker[m].steps
    /\ task_compl_sem[m] = 1

\* C16: in a task with check_home a pulse is requested only after the
\* sensor was read false, and the first true reading sets home_found and
\* ends the task without a further pulse; when a task ends, motor->steps
\* differs from its value at the start of the task by the number of
\* pulses counted, in the task direction; a task ends before its last
\* step only on a true reading, and a task without check_home runs all
\* its steps whatever the sensor reads.
C16_HomeCheck ==
  [][\A m \in Motors :
       /\ (PulseIssued(m) /\ task[m].check_home # 0) => ~is_at_home(m)
       /\ (WorkerStep(m) /\ worker[m].pc = "loop"
             /\ worker[m].i < worker[m].steps
             /\ task[m].check_home # 0 /\ is_at_home(m)) =>
            (TaskEnds(m) /\ task'[m].home_found = 1 /\ ~PulseIssued(m))
       /\ (task'[m].home_found = 1 /\ task[m].home_found = 0) =>
            (TaskEnds(m) /\ task[m].check_home # 0 /\ is_at_home(m))
       /\ TaskEnds(m) =>
            /\ steps'[m] = steps[m]
            /\ steps[m] = worker[m].start
                           + (IF task[m].direction = 1 THEN worker[m].i
                                                       ELSE -worker[m].i)
            /\ worker[m].i < worker[m].steps =>
                 (task[m].check_home # 0 /\ task'[m].home_found = 1)
            /\ task[m].check_home = 0 => worker[m].i = worker[m].steps]_vars

\* A search task has ended on the home check after some pulses, short of
\* its step count.
C16_Witness ==
  \E m \in Motors :
    /\ worker[m].pc = "idle"
    /\ task[m].check_home # 0
    /\ task[m].home_found = 1
    /\ worker[m].i > 0
    /\ worker[m].i < worker[m].steps
    /\ steps[m] # worker[m].start

(* ------------------------------------------------------------------ *)
(* Claim about the travel limits                                       *)
(* ------------------------------------------------------------------ *)
\* C17: once X has been homed, motor->steps of X stays within
\* steps_min .. steps_max in every state reached by pnp_move_nonblock
\* calls, the states while pulses are being counted included.
C17_WithinLimits ==
  Homed("x") => (steps_min("x") <= steps["x"] /\ steps["x"] <= steps_max("x"))

(* ------------------------------------------------------------------ *)
(* Claims about the coordinator's entry points used in sequence        *)
(* ------------------------------------------------------------------ *)
\* Task-ready signals of m posted and not yet answered by a completion
\* signal that the coordinator has taken.
InFlightCount(m) ==
  worker_sem[m] + (IF worker[m].pc # "idle" THEN 1 ELSE 0) + task_compl_sem[m]

\* C18: with pnp_move, pnp_move_xy, pnp_command_move and pnp_move_home
\* called one after another, every axis has at most one task in flight,
\* and the coordinator writes the task fields of an axis only while its
\* worker is idle with no task-ready signal pending.
C18_OneTaskInFlight ==
  /\ [](\A m \in Motors : InFlightCount(m) <= 1)
  /\ [][\A m \in Motors :
          (task'[m] # task[m] /\ ~WorkerStep(m)) =>
            (worker[m].pc = "idle" /\ worker_sem[m] = 0)]_vars

\* In the second call of the run the workers of X and Y each execute one
\* task at the same time.
C18_Witness ==
  /\ calls = 2
  /\ worker["x"].pc = "wait_step"
  /\ worker["y"].pc = "wait_step"
  /\ InFlightCount("x") = 1
  /\ InFlightCount("y") = 1

\* The coordinator is inside pnp_move_xy or pnp_command_move.
InXYOrCommand ==
  pc \in {"xy_issue_y", "xy_wait_x", "xy_wait_y", "xy_ret", "cmd_issue",
          "cmd_wait", "cmd_z", "cmd_z_wait", "cmd_ret"}

\* C19: every call of pnp_move_xy and of pnp_command_move returns, targets
\* that pnp_move_nonblock rejects included, when workers, pulse
\* interrupts and the coordinator are scheduled fairly.
C19_CallsReturn == InXYOrCommand ~> (pc = "idle")

(* ------------------------------------------------------------------ *)
(* Claim about the slow re-approach of linear homing                   *)
(* ------------------------------------------------------------------ *)
\* C20: pnp_move_home_motor goes on from the slow re-approach to the
\* settle move, and so to motor->steps = 0 and its return, only when the
\* slow re-approach was ended by the home check, that is short of its full
\* step count.
C20_SlowApproachChecked ==
  [][(pc = "hm_slow_wait" /\ pc' = "hm_settle_wait") =>
       worker[co.motor].i < worker[co.motor].steps]_vars

(* ------------------------------------------------------------------ *)
(* Claim about the writers of motor->steps                             *)
(* ------------------------------------------------------------------ *)
\* C21 as stated: motor->steps of an axis changes only in a step of that
\* axis's own worker; the coordinator (moves, homing routines, pnp_main)
\* never writes it.
C21_OnlyWorkerWrites ==
  [][\A m \in Motors : steps'[m] # steps[m] => WorkerStep(m)]_vars

\* The coordinator sets motor->steps of m to 0 while the worker of m is
\* idle with no task pending: at the end of a homing routine of m that
\* has taken the completion of its last move, or in pnp_main after
\* pnp_move_xy has returned.
CoordinatorReset(m) ==
  /\ steps'[m] = 0
  /\ worker'[m] = worker[m]
  /\ worker[m].pc = "idle"
  /\ worker_sem[m] = 0
  /\ \/ pc \in {"hz_seat_wait", "hm_settle_wait"} /\ co.motor = m
     \/ pc = "idle" /\ m = "y" /\ calls = Len(HeadMoves) + 2

\* C21 amended: motor->steps of an axis is changed by that axis's own
\* worker, by one step per counted pulse, and otherwise only by the
\* coordinator resetting it to 0 at the end of pnp_move_home_z and
\* pnp_move_home_motor and in pnp_main's change of origin, each time while
\* that axis's worker is idle; no other write happens.
C21_WorkerOrReset ==
  [][\A m \in Motors :
       steps'[m] # steps[m] =>
         \/ /\ WorkerStep(m)
            /\ worker[m].pc = "wait_step"
            /\ Abs(steps'[m] - steps[m]) = 1
            /\ \A o \in Motors \ {m} : steps'[o] = steps[o]
         \/ CoordinatorReset(m)]_vars

\* pnp_main has changed the origin of Y: the count is 0 with the axis at
\* the far end of its travel, after the workers counted every step there
\* and the homing routines reset the counts of Z, Y and X; the Y worker
\* is idle.
C21_Witness ==
  /\ calls = Len(HeadMoves) + 3
  /\ steps["y"] = 0
  /\ set_direction["y"] = "rev"
  /\ phys["y"] > PNP_STEPS_Y_MAX - 1000
  /\ steps["z"] = 0 /\ steps["x"] = 0
  /\ worker["y"].pc = "idle"

====
